---- MODULE Spec2Model ----
(***************************************************************************)
(* PhishShield backend: the URL feature extractor                          *)
(* (backend/url_feature_extractor.py) and the two request handlers         *)
(* predict and predict_from_url (backend/app.py).                          *)
(*                                                                         *)
(* Strings the code inspects character by character (URLs, references in   *)
(* href/src attributes) are sequences of one-character strings.  Python's  *)
(* None is the empty sequence and a present value x is <<x>>.  A call that *)
(* can raise yields Return(v) or Raise(msg).  A dict is the sequence of    *)
(* its items [k, v] in insertion order.                                    *)
(***************************************************************************)
EXTENDS Integers, Sequences, FiniteSets, TLC

(* ------------------------------ bounds --------------------------------- *)

\* longest redirect chain (len(response.history)) the fetch may report
MaxHops == 1

\* the scorer's probabilities are the multiples of 1/(2*Res) in [0,1]
Res == 1

(* --------------------------- Python values ----------------------------- *)

None == <<>>

Some(x) == <<x>>

Return(v) == [raised |-> FALSE, value |-> v]

Raise(m) == [raised |-> TRUE, msg |-> m]

\* F applied to the value of e, with e evaluated once: a local variable
With(e, F(_)) == CHOOSE r \in {F(x) : x \in {e}} : TRUE

Letters ==
  {"a","b","c","d","e","f","g","h","i","j","k","l","m",
   "n","o","p","q","r","s","t","u","v","w","x","y","z"}

Digits == {"0","1","2","3","4","5","6","7","8","9"}

\* str.startswith
StartsWith(s, p) == Len(p) <= Len(s) /\ SubSeq(s, 1, Len(p)) = p

\* str.endswith
EndsWith(s, p) == Len(p) <= Len(s) /\ SubSeq(s, Len(s) - Len(p) + 1, Len(s)) = p

\* position of the first character of s that is in cs, 0 when there is none
FirstIndex(s, cs) ==
  IF \E i \in 1..Len(s) : s[i] \in cs
  THEN CHOOSE i \in 1..Len(s) : s[i] \in cs /\ \A j \in 1..(i-1) : s[j] \notin cs
  ELSE 0

\* position of the last character of s that is in cs, 0 when there is none
LastIndex(s, cs) ==
  IF \E i \in 1..Len(s) : s[i] \in cs
  THEN CHOOSE i \in 1..Len(s) : s[i] \in cs /\ \A j \in (i+1)..Len(s) : s[j] \notin cs
  ELSE 0

\* sum(pred(c) for c in s)
CountIn(s, cs) == Cardinality({i \in 1..Len(s) : s[i] \in cs})

(* ------------------------- urllib.parse -------------------------------- *)

s_http == <<"h","t","t","p">>

s_https == <<"h","t","t","p","s">>

\* schemes for which urljoin resolves a reference against the base
uses_relative == {s_http, s_https}

\* urllib.parse.urlparse, for URLs without params, query and fragment, with
\* the default scheme urljoin passes in
urlparse_default(url, default_scheme) ==
  With(FirstIndex(url, {":"}), LAMBDA c :
  With(/\ c > 1
       /\ url[1] \in Letters
       /\ \A j \in 1..(c-1) : url[j] \in Letters \cup Digits \cup {"+","-","."},
       LAMBDA hasScheme :
  With(IF hasScheme THEN SubSeq(url, c+1, Len(url)) ELSE url, LAMBDA rest :
  With(SubSeq(rest, 3, Len(rest)), LAMBDA after :
  With(FirstIndex(after, {"/","?","#"}), LAMBDA e :
    [scheme |-> IF hasScheme THEN SubSeq(url, 1, c-1) ELSE default_scheme,
     netloc |-> IF ~StartsWith(rest, <<"/","/">>) THEN <<>>
                ELSE IF e = 0 THEN after ELSE SubSeq(after, 1, e-1),
     path |-> IF ~StartsWith(rest, <<"/","/">>) THEN rest
              ELSE IF e = 0 THEN <<>> ELSE SubSeq(after, e, Len(after))])))))

urlparse(url) == urlparse_default(url, <<>>)

\* urllib.parse.urlunparse
urlunparse(p) ==
  With(p, LAMBDA q :
    (IF q.scheme # <<>> THEN q.scheme \o <<":">> ELSE <<>>)
    \o (IF q.netloc # <<>> THEN <<"/","/">> \o q.netloc ELSE <<>>)
    \o q.path)

\* urllib.parse.urljoin, for a base whose path is empty (base_url is always
\* "scheme://netloc") and references without dot segments
urljoin(base, url) ==
  IF base = <<>> THEN url
  ELSE IF url = <<>> THEN base
  ELSE With(urlparse(base), LAMBDA b :
       With(urlparse_default(url, b.scheme), LAMBDA u :
          IF u.scheme # b.scheme \/ u.scheme \notin uses_relative THEN url
          ELSE IF u.netloc # <<>> THEN urlunparse(u)
          ELSE IF u.path = <<>> THEN urlunparse([u EXCEPT !.netloc = b.netloc, !.path = b.path])
          ELSE IF u.path[1] = "/" THEN urlunparse([u EXCEPT !.netloc = b.netloc])
          ELSE urlunparse([u EXCEPT !.netloc = b.netloc, !.path = <<"/">> \o u.path])))

(* ------------------------ requests / bs4 values ------------------------ *)

\* a requests.Response: bool(response) is response.ok (status below 400),
\* history is the list of redirect hops followed
Responses == [ok : BOOLEAN, hops : 0..MaxHops]

\* a tag of the document tree with the attributes the extractor reads
Tag(name, href, src, rel, type) ==
  [name |-> name, href |-> href, src |-> src, rel |-> rel, type |-> type]

\* a fetched body together with what html.parser makes of it:
\*   empty      the body is the empty string
\*   title      "none" (no title tag), "notext" (title.string is None),
\*              "blank" (only whitespace), "text"
\*   meta       the meta description: "none", "nocontent", "blank", "text"
\*   obf, popup the body matches an obfuscation pattern / window.open(
\*   social     soup.decode() matches a social network name
\*   copyright  soup.get_text() matches copyright
Page(empty, title, meta, obf, popup, social, copyright, tags) ==
  [empty |-> empty, title |-> title, meta |-> meta, obf |-> obf, popup |-> popup,
   social |-> social, copyright |-> copyright, tags |-> tags]

r_none == <<>>

r_abs == <<"h","t","t","p",":","/","/","a",".","c","o","/","x">>

r_root == <<"/","x">>

r_rel == <<"x">>

r_lookalike == <<"h","t","t","p",":","/","/","a",".","c","o",".","e","v","/">>

r_netpath == <<"/","/","b",".","c","o","/","s">>

r_mailto == <<"m","a","i","l","t","o",":","x">>

r_tls == <<"h","t","t","p","s",":","/","/","a",".","c","o","/">>

page_empty == Page(TRUE, "none", "none", FALSE, FALSE, FALSE, FALSE, <<>>)

page_bare ==
  Page(FALSE, "notext", "nocontent", FALSE, FALSE, FALSE, FALSE,
       << Tag("a", r_root, r_none, "", ""),
          Tag("a", r_none, r_none, "", "") >>)

page_blank ==
  Page(FALSE, "blank", "blank", TRUE, FALSE, FALSE, TRUE,
       << Tag("img", r_none, r_rel, "", ""),
          Tag("script", r_none, r_netpath, "", ""),
          Tag("a", r_mailto, r_none, "", ""),
          Tag("input", r_none, r_none, "", "text") >>)

page_site ==
  Page(FALSE, "text", "text", FALSE, TRUE, TRUE, TRUE,
       << Tag("link", r_rel, r_none, "stylesheet", ""),
          Tag("link", r_root, r_none, "shortcut icon", ""),
          Tag("script", r_none, r_abs, "", ""),
          Tag("img", r_none, r_tls, "", ""),
          Tag("input", r_none, r_none, "", "submit"),
          Tag("iframe", r_none, r_netpath, "", "") >>)

page_lure ==
  Page(FALSE, "text", "none", TRUE, TRUE, FALSE, FALSE,
       << Tag("a", r_lookalike, r_none, "", ""),
          Tag("img", r_none, r_lookalike, "", ""),
          Tag("a", r_abs, r_none, "", ""),
          Tag("button", r_none, r_none, "", "") >>)

Pages == {page_empty, page_bare, page_blank, page_site, page_lure}

u_empty == <<>>

u_plain == <<"h","t","t","p",":","/","/","a",".","c","o">>

u_ip == <<"h","t","t","p","s",":","/","/","1",".","1",".","1",".","1">>

URLs == {u_empty, u_plain, u_ip}

\* str(e) of the exception a failed step raised
Messages == {"", "timed out"}

\* What the network and the parser do for one construction of the
\* extractor: requests.get raises ("get"), response.text raises ("text"),
\* BeautifulSoup raises ("soup"), or all three return ("ok").
Outcome(stage, msg, resp, page) ==
  [stage |-> stage, msg |-> msg, resp |-> resp, page |-> page]

\* requests.get raises MissingSchema for a URL without a scheme it can
\* fetch, so only http and https URLs get past the first step.
FetchOutcomes(url) ==
  IF urlparse(url).scheme \notin {s_http, s_https}
  THEN {Outcome("get", "No scheme supplied", [ok |-> TRUE, hops |-> 0], page_empty)}
  ELSE {Outcome("get", m, [ok |-> TRUE, hops |-> 0], page_empty) : m \in Messages}
       \cup {Outcome("text", m, r, page_empty) :
               m \in Messages, r \in {x \in Responses : x.hops = 0}}
       \cup {Outcome("soup", m, r, page_blank) :
               m \in Messages, r \in {x \in Responses : x.hops = 0}}
       \cup {Outcome("ok", "", r, p) : r \in Responses, p \in Pages}

(* ------------------------ URLFeatureExtractor -------------------------- *)

safe_parse(url) == Some(urlparse(url))

\* the extractor object after __init__: the four fetch fields start as None
\* and are assigned in order until a step raises
URLFeatureExtractor(url, o) ==
  With(safe_parse(url), LAMBDA parsed_url :
  [url |-> url,
   parsed_url |-> parsed_url,
   domain |-> IF parsed_url # None THEN parsed_url[1].netloc ELSE <<>>,
   response |-> IF o.stage = "get" THEN None ELSE Some(o.resp),
   page_content |-> IF o.stage \in {"get", "text"} THEN None ELSE Some(o.page),
   soup |-> IF o.stage = "ok" THEN Some(o.page) ELSE None,
   error |-> IF o.stage = "ok" THEN None ELSE Some(o.msg)])

\* truth value of self.error: None and the empty message are both false
error_truthy(self) == self.error # None /\ self.error[1] # ""

\* truth value of self.response: bool(Response) is Response.ok
response_truthy(self) == self.response # None /\ self.response[1].ok

\* truth value of self.page_content: a non-empty body
page_content_truthy(self) == self.page_content # None /\ ~self.page_content[1].empty

\* number of tags of the tree that satisfy P
CountTags(self, P(_)) ==
  Cardinality({i \in 1..Len(self.soup[1].tags) : P(self.soup[1].tags[i])})

get_url_length(self) == IF self.url # <<>> THEN Len(self.url) ELSE 0

get_domain_length(self) == IF self.domain # <<>> THEN Len(self.domain) ELSE 0

\* suffixes the tld package knows, of those the sample hosts end in
KnownTLDs == {<<"c","o">>}

\* tld.get_tld(url, fail_silently=True): the suffix of the host, None when
\* the URL has no scheme or the host ends in no known suffix
get_tld(url) ==
  With(urlparse(url), LAMBDA p :
  With(LastIndex(p.netloc, {"."}), LAMBDA d :
  With(SubSeq(p.netloc, d + 1, Len(p.netloc)), LAMBDA last :
    IF p.scheme # <<>> /\ d > 0 /\ last \in KnownTLDs THEN Some(last) ELSE None)))

get_tld_length(self) ==
  With(get_tld(self.url), LAMBDA tld : IF tld # None THEN Len(tld[1]) ELSE 0)

\* the ratios are kept exact, as numerator and denominator
get_letter_ratio_in_url(self) ==
  IF self.url # <<>> THEN [num |-> CountIn(self.url, Letters), den |-> Len(self.url)]
  ELSE [num |-> 0, den |-> 1]

get_digit_ratio_in_url(self) ==
  IF self.url # <<>> THEN [num |-> CountIn(self.url, Digits), den |-> Len(self.url)]
  ELSE [num |-> 0, den |-> 1]

get_no_of_images(self) ==
  IF self.soup # None THEN CountTags(self, LAMBDA t : t.name = "img") ELSE 0

get_no_of_js(self) ==
  IF self.soup # None THEN CountTags(self, LAMBDA t : t.name = "script") ELSE 0

get_no_of_css(self) ==
  IF self.soup # None
  THEN CountTags(self, LAMBDA t : t.name = "link" /\ t.rel = "stylesheet")
  ELSE 0

\* tag.get('href') or tag.get('src')
tag_ref(t) == IF t.href # <<>> THEN t.href ELSE t.src

\* f"{scheme}://{netloc}"
base_url_of(self) ==
  self.parsed_url[1].scheme \o <<":","/","/">> \o self.parsed_url[1].netloc

ref_tags == {"a", "link", "script", "img"}

get_no_of_self_ref(self) ==
  IF self.soup = None \/ self.parsed_url = None THEN 0
  ELSE With(base_url_of(self), LAMBDA base_url :
       CountTags(self, LAMBDA t :
         /\ t.name \in ref_tags
         /\ tag_ref(t) # <<>>
         /\ With(urljoin(base_url, tag_ref(t)), LAMBDA full :
              StartsWith(full, base_url))))

get_no_of_external_ref(self) ==
  IF self.soup = None \/ self.parsed_url = None THEN 0
  ELSE With(base_url_of(self), LAMBDA base_url :
       CountTags(self, LAMBDA t :
         /\ t.name \in ref_tags
         /\ tag_ref(t) # <<>>
         /\ With(urljoin(base_url, tag_ref(t)), LAMBDA full :
              ~StartsWith(full, base_url) /\ urlparse(full).netloc # <<>>)))

is_https(self) ==
  IF self.parsed_url # None /\ self.parsed_url[1].scheme = s_https THEN 1 ELSE 0

has_obfuscation(self) ==
  IF ~page_content_truthy(self) THEN 0
  ELSE IF self.page_content[1].obf THEN 1 ELSE 0

\* soup.title.string is None for a title tag without a text node, and
\* None.strip() raises AttributeError
has_title(self) ==
  IF self.soup = None THEN Return(0)
  ELSE IF self.soup[1].title = "none" THEN Return(0)
  ELSE IF self.soup[1].title = "notext"
       THEN Raise("'NoneType' object has no attribute 'strip'")
  ELSE IF self.soup[1].title = "text" THEN Return(1)
  ELSE Return(0)

has_description(self) ==
  IF self.soup # None /\ self.soup[1].meta = "text" THEN 1 ELSE 0

has_submit_button(self) ==
  IF self.soup = None THEN 0
  ELSE IF \/ CountTags(self, LAMBDA t : t.name = "input" /\ t.type = "submit") > 0
          \/ CountTags(self, LAMBDA t : t.name = "button") > 0
       THEN 1 ELSE 0

has_social_net(self) ==
  IF self.soup = None THEN 0 ELSE IF self.soup[1].social THEN 1 ELSE 0

\* values of rel that re.compile('icon', re.I) matches
icon_rels == {"icon", "shortcut icon", "apple-touch-icon"}

has_favicon(self) ==
  IF /\ self.soup # None
     /\ CountTags(self, LAMBDA t : t.name = "link" /\ t.rel \in icon_rels) > 0
  THEN 1 ELSE 0

has_copyright_info(self) ==
  IF self.soup = None THEN 0 ELSE IF self.soup[1].copyright THEN 1 ELSE 0

has_popup_window(self) ==
  IF page_content_truthy(self) /\ self.page_content[1].popup THEN 1 ELSE 0

has_iframe(self) ==
  IF self.soup # None /\ CountTags(self, LAMBDA t : t.name = "iframe") > 0
  THEN 1 ELSE 0

suspicious_extensions ==
  {<<".","e","x","e">>, <<".","z","i","p">>, <<".","r","a","r">>, <<".","d","l","l">>, <<".","j","s">>}

\* re.search(r'\d+\.\d+\.\d+\.\d+', url)
has_ip_literal(url) ==
  \E a \in 2..Len(url) :
     /\ url[a] = "." /\ url[a-1] \in Digits
     /\ \E b \in (a+2)..Len(url) :
          /\ url[b] = "."
          /\ \A i \in (a+1)..(b-1) : url[i] \in Digits
          /\ \E c \in (b+2)..(Len(url)-1) :
               /\ url[c] = "." /\ url[c+1] \in Digits
               /\ \A i \in (b+1)..(c-1) : url[i] \in Digits

\* the pattern //\w+@ matches only where @ alone already does
is_abnormal_url(self) ==
  IF self.url = <<>> THEN 0
  ELSE IF \/ CountIn(self.url, {"@"}) > 0
          \/ has_ip_literal(self.url)
          \/ \E x \in suspicious_extensions : EndsWith(self.url, x)
       THEN 1 ELSE 0

get_redirect_value(self) ==
  IF ~response_truthy(self) THEN 0
  ELSE IF self.response[1].hops > 0 THEN 1 ELSE -1

(* ------------------------------ dicts ---------------------------------- *)

Item(k, v) == [k |-> k, v |-> v]

Keys(d) == [i \in 1..Len(d) |-> d[i].k]

HasKey(d, k) == \E i \in 1..Len(d) : d[i].k = k

\* the value pandas puts where the dict has no such key
NaN == -1000000

\* d.get(k, NaN)
Get(d, k) == IF HasKey(d, k) THEN d[CHOOSE i \in 1..Len(d) : d[i].k = k].v ELSE NaN

(* ----------------------- extract_model_features ------------------------ *)

\* 1 / 1e-5, the guard added to the digit ratio
EpsInv == 100000

\* letter_ratio / (digit_ratio + 1e-5), rounded down to an integer
letter_to_digit_ratio(l, d) ==
  (l.num * d.den * EpsInv) \div (l.den * (d.num * EpsInv + d.den))

\* the mapping with both columns set for a redirected response
redirect_columns_both(redirect_value) ==
  IF redirect_value = -1 THEN <<0, 0>>
  ELSE IF redirect_value = 0 THEN <<1, 0>>
  ELSE <<1, 1>>

\* the pair (redirect_0, redirect_1) for a redirect value
redirect_columns(redirect_value) ==
  IF redirect_value = -1 THEN <<0, 0>>
  ELSE IF redirect_value = 0 THEN <<1, 0>>
  ELSE <<0, 1>>

\* the dict literal with Redirect_1 written before Redirect_0
model_features_reordered(self, redirect) ==
  With(has_title(self), LAMBDA title :
    IF title.raised THEN title
    ELSE Return(<<
         Item("URLLength", get_url_length(self)),
         Item("DomainLength", get_domain_length(self)),
         Item("TLDLength", get_tld_length(self)),
         Item("NoOfImage", get_no_of_images(self)),
         Item("NoOfJS", get_no_of_js(self)),
         Item("NoOfCSS", get_no_of_css(self)),
         Item("NoOfSelfRef", get_no_of_self_ref(self)),
         Item("NoOfExternalRef", get_no_of_external_ref(self)),
         Item("IsHTTPS", is_https(self)),
         Item("HasObfuscation", has_obfuscation(self)),
         Item("HasTitle", title.value),
         Item("HasDescription", has_description(self)),
         Item("HasSubmitButton", has_submit_button(self)),
         Item("HasSocialNet", has_social_net(self)),
         Item("HasFavicon", has_favicon(self)),
         Item("HasCopyrightInfo", has_copyright_info(self)),
         Item("popUpWindow", has_popup_window(self)),
         Item("Iframe", has_iframe(self)),
         Item("Abnormal_URL", is_abnormal_url(self)),
         Item("LetterToDigitRatio",
              letter_to_digit_ratio(get_letter_ratio_in_url(self),
                                    get_digit_ratio_in_url(self))),
         Item("Redirect_1", redirect[2]),
         Item("Redirect_0", redirect[1]) >>))

\* the dict literal extract_model_features returns, evaluated in order:
\* a method that raises ends the evaluation
model_features(self, redirect) ==
  With(has_title(self), LAMBDA title :
    IF title.raised THEN title
    ELSE Return(<<
         Item("URLLength", get_url_length(self)),
         Item("DomainLength", get_domain_length(self)),
         Item("TLDLength", get_tld_length(self)),
         Item("NoOfImage", get_no_of_images(self)),
         Item("NoOfJS", get_no_of_js(self)),
         Item("NoOfCSS", get_no_of_css(self)),
         Item("NoOfSelfRef", get_no_of_self_ref(self)),
         Item("NoOfExternalRef", get_no_of_external_ref(self)),
         Item("IsHTTPS", is_https(self)),
         Item("HasObfuscation", has_obfuscation(self)),
         Item("HasTitle", title.value),
         Item("HasDescription", has_description(self)),
         Item("HasSubmitButton", has_submit_button(self)),
         Item("HasSocialNet", has_social_net(self)),
         Item("HasFavicon", has_favicon(self)),
         Item("HasCopyrightInfo", has_copyright_info(self)),
         Item("popUpWindow", has_popup_window(self)),
         Item("Iframe", has_iframe(self)),
         Item("Abnormal_URL", is_abnormal_url(self)),
         Item("LetterToDigitRatio",
              letter_to_digit_ratio(get_letter_ratio_in_url(self),
                                    get_digit_ratio_in_url(self))),
         Item("Redirect_0", redirect[1]),
         Item("Redirect_1", redirect[2]) >>))

\* extract_model_features without the early return on self.error
extract_model_features_degraded(self) ==
  model_features(self, redirect_columns(get_redirect_value(self)))

extract_model_features(self) ==
  IF error_truthy(self) THEN Return(<< Item("error", self.error[1]) >>)
  ELSE model_features(self, redirect_columns(get_redirect_value(self)))

(* ------------------------------ app.py --------------------------------- *)

FEATURE_COLUMNS ==
  << "URLLength", "DomainLength", "TLDLength", "NoOfImage", "NoOfJS", "NoOfCSS",
     "NoOfSelfRef", "NoOfExternalRef", "IsHTTPS", "HasObfuscation", "HasTitle",
     "HasDescription", "HasSubmitButton", "HasSocialNet", "HasFavicon",
     "HasCopyrightInfo", "popUpWindow", "Iframe", "Abnormal_URL",
     "LetterToDigitRatio", "Redirect_0", "Redirect_1" >>

\* the fields of the pydantic model, in declaration order
URLFeatures_fields ==
  << "URLLength", "DomainLength", "TLDLength", "NoOfImage", "NoOfJS", "NoOfCSS",
     "NoOfSelfRef", "NoOfExternalRef", "IsHTTPS", "HasObfuscation", "HasTitle",
     "HasDescription", "HasSubmitButton", "HasSocialNet", "HasFavicon",
     "HasCopyrightInfo", "popUpWindow", "Iframe", "Abnormal_URL",
     "LetterToDigitRatio", "Redirect_0", "Redirect_1" >>

\* the request body passes validation: every field is present
URLFeatures_valid(body) == \A i \in 1..Len(URLFeatures_fields) : HasKey(body, URLFeatures_fields[i])

\* URLFeatures(**body).dict(): the declared fields, in declaration order
URLFeatures_dict(body) ==
  With(body, LAMBDA b :
    [i \in 1..Len(URLFeatures_fields) |->
       Item(URLFeatures_fields[i], Get(b, URLFeatures_fields[i]))])

\* pd.DataFrame([d], columns=columns): the row holds, for each column in
\* order, the value the dict has under that name
DataFrame(d, columns) ==
  With(d, LAMBDA row : [i \in 1..Len(columns) |-> Get(row, columns[i])])

\* denominator of the scorer's probabilities: pred = n / PDen, n in 0..PDen
PDen == 2 * Res

\* the fitted scalers the process may have loaded: per-column mean and scale
Scalers ==
  { [mean |-> [i \in 1..Len(FEATURE_COLUMNS) |-> IF i = 1 THEN 12 ELSE 1],
     scale |-> [i \in 1..Len(FEATURE_COLUMNS) |-> IF i = 1 THEN 3 ELSE 2]] }

\* the trained ensembles the process may have loaded: one split on a scaled
\* column, a probability on each side
Boosters ==
  { [col |-> c, thr |-> 0, below |-> n, above |-> PDen - n] :
      c \in {1}, n \in 0..PDen }

VARIABLES
  scaler,       \* the loaded scaler, never written after start
  booster,      \* the loaded ensemble, never written after start
  extractor,    \* the extractor the last URL request constructed, or None
  features,     \* what extract_model_features did for it: Return or Raise, or None
  urlReply,     \* the reply of the last predict_from_url request, or None
  directInput,  \* the body of the last predict request since then, or None
  directReply   \* its reply, or None

vars == <<scaler, booster, extractor, features, urlReply, directInput, directReply>>

\* scaler.transform: (x - mean) / scale per column, rounded down
scaler_transform(row) ==
  [i \in 1..Len(row) |-> (row[i] - scaler.mean[i]) \div scaler.scale[i]]

\* booster.predict on the one-row matrix: pred[0] as a numerator over PDen
booster_predict(row) ==
  IF row[booster.col] < booster.thr THEN booster.below ELSE booster.above

\* rounding with halves going up
round_half_up(n) == (2 * n + PDen) \div (2 * PDen)

\* round(n / PDen): Python rounds to the nearest integer, halves to even
round(n) ==
  IF 2 * (n % PDen) < PDen THEN n \div PDen
  ELSE IF 2 * (n % PDen) > PDen THEN (n \div PDen) + 1
  ELSE IF (n \div PDen) % 2 = 0 THEN n \div PDen ELSE (n \div PDen) + 1

\* library failures a request may meet after the features are in hand
Faults == {"none", "DataFrame", "scaler.transform", "booster.predict"}

\* a handler without the except clause: the exception leaves the handler
except_nothing(r) ==
  With(r, LAMBDA outcome : IF outcome.raised THEN outcome ELSE outcome.value)

\* except Exception as e: return {"error": str(e)}
except_Exception(r) ==
  With(r, LAMBDA outcome : IF outcome.raised THEN [error |-> outcome.msg] ELSE outcome.value)

result_of(label) == IF label = 1 THEN "Legitimate" ELSE "Phishing"

\* predict scoring the unscaled row
predict_unscaled(body, fault) ==
  except_Exception(
    With(DataFrame(URLFeatures_dict(body), FEATURE_COLUMNS), LAMBDA input_df :
    IF fault = "DataFrame" THEN Raise("DataFrame")
    ELSE IF fault = "scaler.transform" THEN Raise("scaler.transform")
    ELSE IF fault = "booster.predict" THEN Raise("booster.predict")
    ELSE With(round(booster_predict(input_df)), LAMBDA label :
           Return([prediction |-> label, result |-> result_of(label)]))))

\* the handler of POST /predict
predict(body, fault) ==
  except_Exception(
    With(DataFrame(URLFeatures_dict(body), FEATURE_COLUMNS), LAMBDA input_df :
    IF fault = "DataFrame" THEN Raise("DataFrame")
    ELSE IF fault = "scaler.transform" THEN Raise("scaler.transform")
    ELSE IF fault = "booster.predict" THEN Raise("booster.predict")
    ELSE With(round(booster_predict(scaler_transform(input_df))), LAMBDA label :
           Return([prediction |-> label, result |-> result_of(label)]))))

\* the handler of POST /predict_url
predict_from_url(url, o, fault) ==
  except_Exception(
    With(URLFeatureExtractor(url, o), LAMBDA extractor_ :
    With(extract_model_features(extractor_), LAMBDA fs :
    IF fs.raised THEN fs
    ELSE IF HasKey(fs.value, "error") THEN Return([error |-> Get(fs.value, "error")])
    ELSE IF fault = "DataFrame" THEN Raise("DataFrame")
    ELSE IF fault = "scaler.transform" THEN Raise("scaler.transform")
    ELSE IF fault = "booster.predict" THEN Raise("booster.predict")
    ELSE With(round(booster_predict(scaler_transform(DataFrame(fs.value, FEATURE_COLUMNS)))),
              LAMBDA label :
           Return([features |-> fs.value, prediction |-> label,
                   result |-> result_of(label)])))))

(* --------------------------- the service ------------------------------- *)

\* request bodies a client may post to /predict on its own
body_zero == [i \in 1..Len(FEATURE_COLUMNS) |-> Item(FEATURE_COLUMNS[i], 0)]

body_odd ==
  [i \in 1..Len(FEATURE_COLUMNS) |->
     Item(FEATURE_COLUMNS[Len(FEATURE_COLUMNS) + 1 - i], IF i <= 2 THEN 1 ELSE 40 - i)]

Bodies == {body_zero, body_odd}

Init ==
  /\ scaler \in Scalers
  /\ booster \in Boosters
  /\ extractor = None
  /\ features = None
  /\ urlReply = None
  /\ directInput = None
  /\ directReply = None

\* the requests to /predict_url: every URL under every behaviour of the
\* network, and a failing library step on the pages that answer at once
UrlRequests ==
  UNION {{<<url, o, "none">> : o \in FetchOutcomes(url)} : url \in URLs}
  \cup UNION {{<<url, o, fault>> :
                 o \in {x \in FetchOutcomes(url) : x.stage = "ok" /\ x.resp.ok /\ x.resp.hops = 0},
                 fault \in Faults} : url \in URLs}

\* POST /predict_url with a URL, under one behaviour of the network
PredictFromUrl(url, o, fault) ==
  \E self \in {URLFeatureExtractor(url, o)} :
    /\ extractor' = Some(self)
    /\ features' = Some(extract_model_features(self))
    /\ urlReply' = Some(predict_from_url(url, o, fault))
    /\ directInput' = None
    /\ directReply' = None
    /\ UNCHANGED <<scaler, booster>>

\* POST /predict with a body of the client's own
Predict(body, fault) ==
  /\ URLFeatures_valid(body)
  /\ directInput' = Some(body)
  /\ directReply' = Some(predict(body, fault))
  /\ extractor' = None
  /\ features' = None
  /\ urlReply' = None
  /\ UNCHANGED <<scaler, booster>>

\* POST /predict with the feature record the last URL reply carried
PredictExtracted(fault) ==
  /\ urlReply # None
  /\ "features" \in DOMAIN urlReply[1]
  /\ \E body \in {urlReply[1].features} :
       /\ URLFeatures_valid(body)
       /\ directInput' = Some(body)
       /\ directReply' = Some(predict(body, fault))
  /\ UNCHANGED <<scaler, booster, extractor, features, urlReply>>

Next ==
  \/ \E q \in UrlRequests : PredictFromUrl(q[1], q[2], q[3])
  \/ \E body \in Bodies : \E fault \in Faults : Predict(body, fault)
  \/ \E fault \in Faults : PredictExtracted(fault)

Spec == Init /\ [][Next]_vars

(* ------------------------------ claims --------------------------------- *)

\* the fields computed from the fetched page
ContentFields ==
  {"NoOfImage", "NoOfJS", "NoOfCSS", "NoOfSelfRef", "NoOfExternalRef",
   "HasObfuscation", "HasTitle", "HasDescription", "HasSubmitButton",
   "HasSocialNet", "HasFavicon", "HasCopyrightInfo", "popUpWindow", "Iframe"}

\* the last URL request constructed an extractor whose requests.get raised
GetRaised == extractor # None /\ extractor[1].response = None /\ extractor[1].error # None

\* a reply that is a verdict / an error payload
IsVerdict(reply) == {"prediction", "result"} \subseteq DOMAIN reply /\ "error" \notin DOMAIN reply

IsError(reply) == DOMAIN reply = {"error"}

\* extract_model_features returned a feature record for the last URL request
RecordReturned ==
  /\ features # None
  /\ ~features[1].raised
  /\ ~HasKey(features[1].value, "error")

RedirectPair(d) == <<Get(d, "Redirect_0"), Get(d, "Redirect_1")>>

ContentAllZero(d) == \A f \in ContentFields : Get(d, f) = 0

ClaimedRedirectPair(self) ==
  IF self.response = None THEN <<0, 0>>
  ELSE IF self.response[1].hops = 0 THEN <<1, 0>>
  ELSE <<0, 1>>

\* C2: in every feature record returned, get_redirect_value and the redirect
\* mapping of extract_model_features give (0,0) when no response was
\* obtained, (1,0) for a response with no redirect hop and (0,1) for a
\* response with one or more hops.
C2_RedirectTriState ==
  RecordReturned =>
    RedirectPair(features[1].value) = ClaimedRedirectPair(extractor[1])

pred_of(d) == booster_predict(scaler_transform(DataFrame(d, FEATURE_COLUMNS)))

UrlVerdict == urlReply # None /\ IsVerdict(urlReply[1])

DirectVerdict == directReply # None /\ IsVerdict(directReply[1])

\* the reply's label is 1/Legitimate exactly when legit holds
LabelIs(reply, legit) ==
  /\ reply.prediction = (IF legit THEN 1 ELSE 0)
  /\ reply.result = (IF legit THEN "Legitimate" ELSE "Phishing")

RoundTrip ==
  /\ UrlVerdict
  /\ DirectVerdict
  /\ directInput[1] = urlReply[1].features

\* C5: a feature record returned by the URL path and posted to /predict gets
\* the same prediction and result as the URL path gave.
C5_RoundTripSameVerdict ==
  RoundTrip =>
    /\ directReply[1].prediction = urlReply[1].prediction
    /\ directReply[1].result = urlReply[1].result

C5_Witness ==
  /\ RoundTrip
  /\ urlReply[1].prediction = 0
  /\ Get(directInput[1], "URLLength") = Len(u_plain)

\* C6: every request to either handler ends with a verdict payload or an
\* {"error": message} payload; no exception leaves a handler.
C6_HandlersAlwaysReply ==
  /\ urlReply # None => IsVerdict(urlReply[1]) \/ IsError(urlReply[1])
  /\ directReply # None => IsVerdict(directReply[1]) \/ IsError(directReply[1])

C6_Witness ==
  /\ features # None
  /\ features[1].raised
  /\ IsError(urlReply[1])
  /\ urlReply[1].error = features[1].msg

\* C7: the redirect pair of every returned feature record is (0,0), (1,0)
\* or (0,1), never (1,1).
C7_RedirectPairOneHot ==
  RecordReturned =>
    RedirectPair(features[1].value) \in {<<0, 0>>, <<1, 0>>, <<0, 1>>}

C7_Witness ==
  /\ RecordReturned
  /\ extractor[1].response # None
  /\ extractor[1].response[1].hops > 0
  /\ RedirectPair(features[1].value) = <<0, 1>>

\* C8: after __init__ the fetch result is a success (error None; response,
\* page_content and soup all set) or a failure (error set; response,
\* page_content and soup all None), nothing in between.
C8_FetchAllOrNothing ==
  extractor # None =>
    LET self == extractor[1] IN
    \/ /\ self.error = None
       /\ self.response # None /\ self.page_content # None /\ self.soup # None
    \/ /\ self.error # None
       /\ self.response = None /\ self.page_content = None /\ self.soup = None

\* C9: has_title never raises; it returns 1 iff a title tag with
\* non-whitespace text exists and 0 otherwise.
C9_HasTitleTotal ==
  extractor # None =>
    LET self == extractor[1] IN
    /\ ~has_title(self).raised
    /\ has_title(self).value =
         (IF self.soup # None /\ self.soup[1].title = "text" THEN 1 ELSE 0)

\* the reference of tag t resolved against the page's origin
Resolved(self, t) == urlparse(urljoin(base_url_of(self), tag_ref(t)))

HasRef(t) == t.name \in ref_tags /\ tag_ref(t) # <<>>

\* C10: a reference counts as self iff, resolved, it has the page's scheme
\* and host, and as external iff it has a non-empty host other than the
\* page's; a host that only begins with the page's host is external.
C10_RefsClassifiedByHost ==
  (extractor # None /\ extractor[1].soup # None) =>
    LET self == extractor[1]
        page == self.parsed_url[1]
    IN /\ get_no_of_self_ref(self) =
            CountTags(self, LAMBDA t :
              /\ HasRef(t)
              /\ Resolved(self, t).scheme = page.scheme
              /\ Resolved(self, t).netloc = page.netloc)
       /\ get_no_of_external_ref(self) =
            CountTags(self, LAMBDA t :
              /\ HasRef(t)
              /\ Resolved(self, t).netloc # <<>>
              /\ Resolved(self, t).netloc # page.netloc)

====
